---- MODULE Spec2Model ----
(***************************************************************************)
(* Model of the GitHub MCP agent front end                                 *)
(* (mcp_ai_agents/github_mcp_agent/github_agent_documented.py) and of the  *)
(* environment helper (utils/env_loader.py).                               *)
(*                                                                         *)
(* Spec          one invocation of run_github_agent, step by step          *)
(* QuerySpec     the Run Query handler's composition of full_query         *)
(* ValidateSpec  validate_required_keys                                    *)
(* GetKeySpec    get_api_key                                               *)
(* LoadEnvSpec   load_env                                                  *)
(* FormSpec      one script run of a session (sidebar, Run Query button,   *)
(*               run_github_agent) while other sessions of the same        *)
(*               process run theirs                                        *)
(*                                                                         *)
(* Python's None is the empty sequence and a present value x is <<x>>.     *)
(* An environment is a function on EnvNames whose value Unset stands for a *)
(* name that os.environ does not hold.                                     *)
(***************************************************************************)
EXTENDS Integers, Sequences, FiniteSets, TLC

VARIABLES
    environ,        \* os.environ
    environ0,       \* os.environ as it was when the operation was called
    message,        \* run_github_agent's argument
    pc,             \* position inside run_github_agent
    server_params,  \* the StdioServerParameters built at lines 199-214
    conn,           \* the MCPTools connection: "none", "open", "released"
    opens,          \* how many times MCPTools was entered
    requests,       \* how many times agent.arun was submitted
    inflight,       \* the agent request is submitted and not yet finished
    agent,          \* the Agent object exists
    response,       \* the RunOutput content received from agent.arun
    exc,            \* the exception in flight inside the try block
    expired,        \* asyncio.wait_for's bound expired
    failed_at,      \* the steps that raised, in order
    result,         \* the value run_github_agent returned
    raised,         \* the exception run_github_agent let through to its caller
    query,          \* the "Your Query" text area
    repo,           \* the "Repository" text input
    full_query,     \* the Run Query handler's full_query
    orig_query,     \* the query text before any composition
    rounds,         \* how many times the composed text was run again
    key_names,      \* validate_required_keys' arguments
    key_name,       \* get_api_key's key_name
    default,        \* get_api_key's default
    required,       \* get_api_key's required
    cwd_depth,      \* Path.cwd(): how many directories lie above it
    dotenv,         \* per directory depth, the env_file there, if any
    outcome,        \* what the env_loader call returned or raised
    openai_key,     \* the session's "OpenAI API Key" text input
    github_token,   \* the session's "GitHub Token" text input
    clicked,        \* st.button("Run Query") is True in this script run
    fpc,            \* position of the session's script run
    st_error        \* the st.error messages of this script run

agentVars == <<message, pc, server_params, conn, opens, requests, inflight,
               agent, response, exc, expired, failed_at, result, raised>>

queryVars == <<query, repo, full_query, orig_query, rounds>>

loaderVars == <<key_names, key_name, default, required, cwd_depth, dotenv, outcome>>

formVars == <<openai_key, github_token, clicked, fpc, st_error>>

vars == <<environ, environ0, agentVars, queryVars, loaderVars, formVars>>

None == <<>>
Some(x) == <<x>>
Val(o) == o[1]

(***************************************************************************)
(* The process environment                                                 *)
(***************************************************************************)
Unset == "<unset>"

GITHUB_TOKEN == "GITHUB_TOKEN"
OPENAI_API_KEY == "OPENAI_API_KEY"
GITHUB_PERSONAL_ACCESS_TOKEN == "GITHUB_PERSONAL_ACCESS_TOKEN"
GITHUB_TOOLSETS == "GITHUB_TOOLSETS"
HOME == "HOME"

EnvNames == {GITHUB_TOKEN, OPENAI_API_KEY, GITHUB_PERSONAL_ACCESS_TOKEN,
             GITHUB_TOOLSETS, HOME}

\* os.getenv(name): the value, or None (Unset) when the name is not held.
Getenv(env, name) == env[name]

Truthy_NotNone(v) == v # Unset

\* Python truthiness of an Optional[str]: None and "" are false.
Truthy(v) == v # Unset /\ v # ""

(***************************************************************************)
(* run_github_agent                                                        *)
(***************************************************************************)
TIMEOUT_S == 120

MSG_NO_GITHUB == "Error: GitHub token not provided"
MSG_NO_OPENAI == "Error: OpenAI API key not provided"
MSG_TIMEOUT == "Error: Request timed out after 120 seconds"
TOOLSETS_LITERAL == "repos,issues,pull_requests"

DOCKER_ARGS == <<"run", "-i", "--rm", "-e", GITHUB_PERSONAL_ACCESS_TOKEN,
                 "-e", GITHUB_TOOLSETS, "ghcr.io/github/github-mcp-server">>

\* The exceptions the collaborators (MCPTools, Agent, agent.arun) can raise:
\* any subclass of Exception, asyncio.TimeoutError among them.
Failures == {[cls |-> "TimeoutError", desc |-> ""],
             [cls |-> "Exception", desc |-> "boom"],
             [cls |-> "Exception", desc |-> ""]}

\* asyncio.wait_for raises this when its bound expires.
WaitForTimeout == [cls |-> "TimeoutError", desc |-> ""]

\* RunOutput.content values.
Contents == {"## Issues", "No results"}

\* How long agent.arun takes to finish, in seconds.
Durations == {1, TIMEOUT_S - 1, TIMEOUT_S, TIMEOUT_S + 1}

Messages == {"list issues", "list issues in o/r"}

\* Which except clause takes an exception of class cls.
IsTimeoutError(cls) == cls = "TimeoutError"
IsException(cls) == cls \in {"TimeoutError", "Exception"}

LaunchEnv_InheritedWins(env) ==
    [n \in EnvNames |->
        IF env[n] # Unset THEN env[n]
        ELSE IF n = GITHUB_PERSONAL_ACCESS_TOKEN THEN Getenv(env, GITHUB_TOKEN)
        ELSE IF n = GITHUB_TOOLSETS THEN TOOLSETS_LITERAL
        ELSE env[n]]

\* {**os.environ, TOKEN: os.getenv('GITHUB_TOKEN'), TOOLSETS: literal}:
\* later keys of a dict display win over earlier ones.
LaunchEnv(env) ==
    [n \in EnvNames |->
        IF n = GITHUB_PERSONAL_ACCESS_TOKEN THEN Getenv(env, GITHUB_TOKEN)
        ELSE IF n = GITHUB_TOOLSETS THEN TOOLSETS_LITERAL
        ELSE env[n]]

AgentEnvs ==
    {e \in [EnvNames -> {Unset, "", "ghp_a", "ghp_b", "sk_a", "stale", "/root"}] :
        /\ e[GITHUB_TOKEN] \in {Unset, "", "ghp_a", "ghp_b"}
        /\ e[OPENAI_API_KEY] \in {Unset, "", "sk_a"}
        /\ e[GITHUB_PERSONAL_ACCESS_TOKEN] \in {Unset, "stale"}
        /\ e[GITHUB_TOOLSETS] \in {Unset, "stale"}
        /\ e[HOME] \in {Unset, "/root"}}

AgentStart ==
    /\ pc = "start"
    /\ server_params = None
    /\ conn = "none"
    /\ opens = 0
    /\ requests = 0
    /\ inflight = FALSE
    /\ agent = FALSE
    /\ response = None
    /\ exc = None
    /\ expired = FALSE
    /\ failed_at = <<>>
    /\ result = None
    /\ raised = None

\* The variables of the other operations, while they are not running.
AgentIdle ==
    /\ message = None
    /\ pc = "idle"
    /\ server_params = None
    /\ conn = "none"
    /\ opens = 0
    /\ requests = 0
    /\ inflight = FALSE
    /\ agent = FALSE
    /\ response = None
    /\ exc = None
    /\ expired = FALSE
    /\ failed_at = <<>>
    /\ result = None
    /\ raised = None

QueryIdle ==
    /\ query = None
    /\ repo = None
    /\ full_query = None
    /\ orig_query = None
    /\ rounds = 0

LoaderIdle ==
    /\ key_names = <<>>
    /\ key_name = None
    /\ default = None
    /\ required = FALSE
    /\ cwd_depth = 0
    /\ dotenv = <<>>
    /\ outcome = None

FormIdle ==
    /\ openai_key = ""
    /\ github_token = ""
    /\ clicked = FALSE
    /\ fpc = "idle"
    /\ st_error = <<>>

Init ==
    /\ environ \in AgentEnvs
    /\ environ0 = environ
    /\ message \in {Some(m) : m \in Messages}
    /\ AgentStart
    /\ QueryIdle
    /\ LoaderIdle
    /\ FormIdle

\* if not os.getenv("GITHUB_TOKEN"): return "Error: GitHub token not provided"
CheckGithubToken ==
    /\ pc = "start"
    /\ IF ~Truthy(Getenv(environ, GITHUB_TOKEN))
       THEN /\ result' = Some(MSG_NO_GITHUB)
            /\ pc' = "done"
       ELSE /\ pc' = "check_openai"
            /\ UNCHANGED result
    /\ UNCHANGED <<queryVars, loaderVars, formVars>>
    /\ UNCHANGED <<environ, environ0, message, server_params, conn, opens, requests,
                   inflight, agent, response, exc, expired, failed_at, raised>>

\* if not os.getenv("OPENAI_API_KEY"): return "Error: OpenAI API key not provided"
CheckOpenAIKey ==
    /\ pc = "check_openai"
    /\ IF ~Truthy(Getenv(environ, OPENAI_API_KEY))
       THEN /\ result' = Some(MSG_NO_OPENAI)
            /\ pc' = "done"
       ELSE /\ pc' = "build"
            /\ UNCHANGED result
    /\ UNCHANGED <<queryVars, loaderVars, formVars>>
    /\ UNCHANGED <<environ, environ0, message, server_params, conn, opens, requests,
                   inflight, agent, response, exc, expired, failed_at, raised>>

\* server_params = StdioServerParameters(command, args, env)
BuildServerParams ==
    /\ pc = "build"
    /\ server_params' = Some([command |-> "docker",
                              args |-> DOCKER_ARGS,
                              env |-> LaunchEnv(environ)])
    /\ pc' = "enter"
    /\ UNCHANGED <<queryVars, loaderVars, formVars>>
    /\ UNCHANGED <<environ, environ0, message, conn, opens, requests, inflight, agent,
                   response, exc, expired, failed_at, result, raised>>

\* async with MCPTools(server_params=server_params) as mcp_tools: entering
\* either opens the connection or raises; a raise before the body runs
\* skips __aexit__ and goes to the except clauses.
EnterMCPTools ==
    /\ pc = "enter"
    /\ opens' = opens + 1
    /\ \/ /\ conn' = "open"
          /\ pc' = "agent"
          /\ UNCHANGED <<exc, failed_at>>
       \/ \E f \in Failures :
             /\ exc' = Some(f)
             /\ failed_at' = Append(failed_at, "open")
             /\ pc' = "except"
             /\ UNCHANGED conn
    /\ UNCHANGED <<queryVars, loaderVars, formVars>>
    /\ UNCHANGED <<environ, environ0, message, server_params, requests, inflight, agent,
                   response, expired, result, raised>>

\* agent = Agent(tools=[mcp_tools], instructions=..., markdown=True)
CreateAgent ==
    /\ pc = "agent"
    /\ \/ /\ agent' = TRUE
          /\ pc' = "arun"
          /\ UNCHANGED <<exc, failed_at>>
       \/ \E f \in Failures :
             /\ exc' = Some(f)
             /\ failed_at' = Append(failed_at, "agent")
             /\ pc' = "exit"
             /\ UNCHANGED agent
    /\ UNCHANGED <<queryVars, loaderVars, formVars>>
    /\ UNCHANGED <<environ, environ0, message, server_params, conn, opens, requests,
                   inflight, response, expired, result, raised>>

\* asyncio.wait_for(agent.arun(message), timeout=120.0): the request is
\* submitted.
SubmitRequest ==
    /\ pc = "arun"
    /\ requests' = requests + 1
    /\ inflight' = TRUE
    /\ pc' = "await"
    /\ UNCHANGED <<queryVars, loaderVars, formVars>>
    /\ UNCHANGED <<environ, environ0, message, server_params, conn, opens, agent,
                   response, exc, expired, failed_at, result, raised>>

\* The await on wait_for ends: agent.arun finished within the bound (with a
\* RunOutput or a raise), or the bound expired first, the request was
\* cancelled and TimeoutError is raised. At exactly the bound either happens.
AwaitResponse ==
    /\ pc = "await"
    /\ inflight' = FALSE
    /\ pc' = "exit"
    /\ \E d \in Durations :
          \/ /\ d <= TIMEOUT_S
             /\ \/ \E c \in Contents :
                      /\ response' = Some(c)
                      /\ UNCHANGED <<exc, failed_at>>
                \/ \E f \in Failures :
                      /\ exc' = Some(f)
                      /\ failed_at' = Append(failed_at, "arun")
                      /\ UNCHANGED response
             /\ UNCHANGED expired
          \/ /\ d >= TIMEOUT_S
             /\ expired' = TRUE
             /\ exc' = Some(WaitForTimeout)
             /\ UNCHANGED <<response, failed_at>>
    /\ UNCHANGED <<queryVars, loaderVars, formVars>>
    /\ UNCHANGED <<environ, environ0, message, server_params, conn, opens, requests,
                   agent, result, raised>>

\* The connection once __aexit__ has run with `pending` the exception leaving
\* the block (None on a return): the context manager closes it either way.
ConnAfterExit_OnlyOnReturn(pending) ==
    IF pending = None THEN "released" ELSE "open"

ConnAfterExit(pending) == "released"

\* Leaving the async with block, by return or by exception: __aexit__ runs and
\* releases the connection. It returns (the pending return or exception
\* continues) or raises (its exception replaces what was pending).
ExitMCPTools ==
    /\ pc = "exit"
    /\ conn' = ConnAfterExit(exc)
    /\ \/ /\ exc = None
          /\ result' = response          \* return response.content
          /\ pc' = "done"
          /\ UNCHANGED <<exc, failed_at>>
       \/ /\ exc # None
          /\ pc' = "except"
          /\ UNCHANGED <<exc, failed_at, result>>
       \/ \E f \in Failures :
             /\ exc' = Some(f)
             /\ failed_at' = Append(failed_at, "release")
             /\ pc' = "except"
             /\ UNCHANGED result
    /\ UNCHANGED <<queryVars, loaderVars, formVars>>
    /\ UNCHANGED <<environ, environ0, message, server_params, opens, requests, inflight,
                   agent, response, expired, raised>>

HandleException_TimeoutOnly ==
    /\ pc = "except"
    /\ IF IsTimeoutError(Val(exc).cls)
       THEN /\ result' = Some(MSG_TIMEOUT)
            /\ UNCHANGED raised
       ELSE /\ raised' = exc
            /\ UNCHANGED result
    /\ pc' = "done"
    /\ UNCHANGED <<queryVars, loaderVars, formVars>>
    /\ UNCHANGED <<environ, environ0, message, server_params, conn, opens, requests,
                   inflight, agent, response, exc, expired, failed_at>>

HandleException_Retry ==
    /\ pc = "except"
    /\ IF opens < 2
       THEN /\ pc' = "enter"
            /\ UNCHANGED <<result, raised>>
       ELSE /\ result' = Some("Error: " \o Val(exc).desc)
            /\ pc' = "done"
            /\ UNCHANGED raised
    /\ UNCHANGED <<queryVars, loaderVars, formVars>>
    /\ UNCHANGED <<environ, environ0, message, server_params, conn, opens, requests,
                   inflight, agent, response, exc, expired, failed_at>>

\* except asyncio.TimeoutError: ... except Exception as e: ...; an exception
\* neither clause takes leaves run_github_agent.
HandleException ==
    /\ pc = "except"
    /\ IF IsTimeoutError(Val(exc).cls)
       THEN /\ result' = Some(MSG_TIMEOUT)
            /\ UNCHANGED raised
       ELSE IF IsException(Val(exc).cls)
       THEN /\ result' = Some("Error: " \o Val(exc).desc)
            /\ UNCHANGED raised
       ELSE /\ raised' = exc
            /\ UNCHANGED result
    /\ pc' = "done"
    /\ UNCHANGED <<queryVars, loaderVars, formVars>>
    /\ UNCHANGED <<environ, environ0, message, server_params, conn, opens, requests,
                   inflight, agent, response, exc, expired, failed_at>>

Next ==
    \/ CheckGithubToken
    \/ CheckOpenAIKey
    \/ BuildServerParams
    \/ EnterMCPTools
    \/ CreateAgent
    \/ SubmitRequest
    \/ AwaitResponse
    \/ ExitMCPTools
    \/ HandleException

Spec == Init /\ [][Next]_vars

(***************************************************************************)
(* Properties of run_github_agent (Spec)                                   *)
(***************************************************************************)
BothCredentials ==
    /\ environ0[GITHUB_TOKEN] # Unset /\ environ0[GITHUB_TOKEN] # ""
    /\ environ0[OPENAI_API_KEY] # Unset /\ environ0[OPENAI_API_KEY] # ""
OpenedOk == opens = 1 /\ \A i \in 1..Len(failed_at) : failed_at[i] # "open"

\* C1: when GITHUB_TOKEN or OPENAI_API_KEY is unset or empty, the invocation
\* never builds the launch descriptor, never enters MCPTools, never creates
\* the agent and never submits the request, and it ends returning the
\* missing-credential message: the GitHub one when the GitHub token is
\* absent, otherwise the OpenAI one.
C1_MissingCredential ==
    ~BothCredentials =>
        /\ server_params = None
        /\ conn = "none" /\ opens = 0
        /\ ~agent /\ requests = 0 /\ ~inflight
        /\ raised = None
        /\ pc = "done" =>
              result = Some(IF environ0[GITHUB_TOKEN] \in {Unset, ""}
                            THEN MSG_NO_GITHUB ELSE MSG_NO_OPENAI)

C1_Witness ==
    /\ pc = "done"
    /\ environ0[GITHUB_TOKEN] = "ghp_a"
    /\ environ0[OPENAI_API_KEY] = ""
    /\ result = Some(MSG_NO_OPENAI)

\* C2: once MCPTools has been entered successfully, the connection is
\* released before the except clauses run and before run_github_agent
\* returns: no state past the async with block, and no state with a result,
\* has the connection open, and an invocation that opened it ends with it
\* released.
C2_ReleasedBeforeReturn ==
    /\ pc \in {"except", "done"} => conn # "open"
    /\ (result # None \/ raised # None) => conn # "open"
    /\ (pc = "done" /\ OpenedOk) => conn = "released"

C2_Witness ==
    /\ pc = "done"
    /\ expired
    /\ conn = "released"
    /\ result = Some(MSG_TIMEOUT)

\* C3 (as claimed): with both credentials present, a finished invocation
\* returns the response content when the agent call completed within the
\* bound, the fixed timeout message when the bound expired, and "Error: "
\* followed by the failure's description for any other failure; the timeout
\* message is returned only when the bound expired.
C3_ThreeOutcomes ==
    (pc = "done" /\ BothCredentials) =>
        /\ response # None => result = response
        /\ expired => result = Some(MSG_TIMEOUT)
        /\ (~expired /\ failed_at # <<>>) =>
              result = Some("Error: " \o Val(exc).desc)
        /\ result = Some(MSG_TIMEOUT) => expired

\* C4: a finished invocation has returned exactly one string and let no
\* exception through to its caller, whichever step failed; before it
\* finishes nothing has been returned, and it is never stuck short of
\* returning.
C4_AlwaysReturnsString ==
    /\ pc = "done" =>
          /\ raised = None
          /\ Len(result) = 1
          /\ Val(result) \in STRING
    /\ pc # "done" =>
          /\ result = None
          /\ raised = None
          /\ ENABLED Next

C4_Witness ==
    /\ pc = "done"
    /\ failed_at = <<"release">>
    /\ result = Some("Error: boom")

\* C5 (as claimed): a finished invocation that had both credentials and
\* whose connection opened successfully has opened once and submitted the
\* request once.
C5_ExactlyOnceEach ==
    (pc = "done" /\ BothCredentials /\ OpenedOk) =>
        opens = 1 /\ requests = 1

\* C5 (amended): MCPTools is entered at most once and the request submitted
\* at most once; a request is in flight only while the connection is open;
\* a finished invocation has entered MCPTools exactly once when both
\* credentials were present, and has submitted the request exactly once when
\* moreover the connection opened and the Agent was constructed, and not at
\* all otherwise.
C5_AtMostOnce ==
    /\ opens <= 1 /\ requests <= 1
    /\ inflight => conn = "open"
    /\ requests = 1 => (opens = 1 /\ conn # "none")
    /\ conn = "released" => ~inflight
    /\ pc = "done" =>
          /\ BothCredentials <=> opens = 1
          /\ (BothCredentials /\ OpenedOk /\ agent) <=> requests = 1

C5_Witness ==
    /\ pc = "done"
    /\ expired
    /\ opens = 1 /\ requests = 1

\* C10: the environment map of the launch descriptor gives
\* GITHUB_PERSONAL_ACCESS_TOKEN the value of GITHUB_TOKEN and GITHUB_TOOLSETS
\* the literal, whatever the inherited environment held under those two
\* names; every other name has its inherited value; os.environ is as it was
\* when run_github_agent was called.
C10_LaunchEnvPrecedence ==
    /\ environ = environ0
    /\ server_params # None =>
          LET m == Val(server_params).env IN
          /\ m[GITHUB_PERSONAL_ACCESS_TOKEN] = environ[GITHUB_TOKEN]
          /\ m[GITHUB_TOOLSETS] = "repos,issues,pull_requests"
          /\ \A n \in EnvNames \ {GITHUB_PERSONAL_ACCESS_TOKEN, GITHUB_TOOLSETS} :
                m[n] = environ[n]

C10_Witness ==
    /\ server_params # None
    /\ environ[GITHUB_PERSONAL_ACCESS_TOKEN] = "stale"
    /\ environ[GITHUB_TOOLSETS] = "stale"
    /\ environ[HOME] = "/root"
    /\ Val(server_params).env[GITHUB_PERSONAL_ACCESS_TOKEN] = "ghp_b"

(***************************************************************************)
(* Run Query handler: composition of full_query (QuerySpec)                *)
(***************************************************************************)
MaxQueryLen == 3
MaxRepoLen == 2
MaxRounds == 2

\* Text is a sequence of characters.
Chars == {"a", "n", " "}
StrsUpTo(n) == UNION {[1..k -> Chars] : k \in 0..n}

\* f"{query} in {repo}": what stands between the two.
SEPARATOR == <<" ", "i", "n", " ">>

\* Python's `r in q` on str: r occurs in q as a contiguous run.
IsSubstr(r, q) ==
    \E i \in 0..(Len(q) - Len(r)) : SubSeq(q, i + 1, i + Len(r)) = r

FullQuery_AlwaysAppend(q, r) ==
    IF r # <<>> THEN q \o SEPARATOR \o r ELSE q

\* if repo and repo not in query: full_query = f"{query} in {repo}"
\* else: full_query = query
FullQuery(q, r) ==
    IF r # <<>> /\ ~IsSubstr(r, q) THEN q \o SEPARATOR \o r ELSE q

\* No environment is involved in the composition.
EmptyEnv == [n \in EnvNames |-> Unset]

\* The handler composes only a non-empty query (line 281 rejects an empty one).
QueryInit ==
    /\ query \in {Some(q) : q \in StrsUpTo(MaxQueryLen) \ {<<>>}}
    /\ repo \in {Some(r) : r \in StrsUpTo(MaxRepoLen)}
    /\ orig_query = query
    /\ full_query = None
    /\ rounds = 0
    /\ environ = EmptyEnv
    /\ environ0 = environ
    /\ AgentIdle
    /\ LoaderIdle
    /\ FormIdle

ComposeQuery ==
    /\ full_query = None
    /\ full_query' = Some(FullQuery(Val(query), Val(repo)))
    /\ UNCHANGED <<query, repo, orig_query, rounds>>
    /\ UNCHANGED <<environ, environ0, agentVars, loaderVars, formVars>>

\* The composed text is put back in the text area and Run Query is pressed
\* again with the same repository.
Resubmit ==
    /\ full_query # None
    /\ rounds < MaxRounds
    /\ query' = full_query
    /\ full_query' = None
    /\ rounds' = rounds + 1
    /\ UNCHANGED <<repo, orig_query>>
    /\ UNCHANGED <<environ, environ0, agentVars, loaderVars, formVars>>

QueryNext == ComposeQuery \/ Resubmit

QuerySpec == QueryInit /\ [][QueryNext]_vars

\* C6: the dispatched query is the original text unchanged when the
\* repository is empty or already occurs in it, and otherwise the original
\* text, then " in ", then the repository; composing the composed text again
\* with the same repository gives the same text, however often.
C6_Composition ==
    full_query # None =>
        LET q == Val(orig_query)
            r == Val(repo)
            f == Val(full_query)
            occurs == \E i \in 0..Len(q), j \in 1..(Len(q) + 1) :
                         SubSeq(q, 1, i) \o r \o SubSeq(q, j, Len(q)) = q
        IN  IF r = <<>> \/ occurs
            THEN f = q
            ELSE /\ Len(f) = Len(q) + 4 + Len(r)
                 /\ SubSeq(f, 1, Len(q)) = q
                 /\ SubSeq(f, Len(q) + 1, Len(q) + 4) = <<" ", "i", "n", " ">>
                 /\ SubSeq(f, Len(q) + 5, Len(f)) = r

C6_Witness ==
    /\ rounds = 2
    /\ full_query # None
    /\ Val(orig_query) = <<"a", " ", "a">>
    /\ Val(repo) = <<"n", " ">>
    /\ Val(full_query) = <<"a", " ", "a", " ", "i", "n", " ", "n", " ">>

(***************************************************************************)
(* utils/env_loader.py                                                     *)
(***************************************************************************)
MaxKeys == 3
MaxDepth == 4
SEARCH_LEVELS == 3

\* The names the helper is asked about.
KeyNames == {GITHUB_TOKEN, OPENAI_API_KEY, HOME}

\* Environments in which each of those names is unset, empty or set.
LoaderEnvs ==
    {e \in [EnvNames -> {Unset, "", "v"}] :
        \A n \in EnvNames \ KeyNames : e[n] = Unset}

SeqsUpTo(S, n) == UNION {[1..k -> S] : k \in 0..n}

RECURSIVE MissingKeys_FirstOnly(_, _)
MissingKeys_FirstOnly(keys, env) ==
    IF keys = <<>> THEN <<>>
    ELSE IF ~Truthy(Getenv(env, Head(keys))) THEN <<Head(keys)>>
    ELSE MissingKeys_FirstOnly(Tail(keys), env)

\* for key in key_names: if not os.getenv(key): missing_keys.append(key)
RECURSIVE MissingKeys(_, _)
MissingKeys(keys, env) ==
    IF keys = <<>> THEN <<>>
    ELSE IF ~Truthy(Getenv(env, Head(keys)))
         THEN <<Head(keys)>> \o MissingKeys(Tail(keys), env)
         ELSE MissingKeys(Tail(keys), env)

\* sep.join(items), as the sequence of its pieces.
RECURSIVE Join(_, _)
Join(sep, items) ==
    IF Len(items) <= 1 THEN items
    ELSE <<Head(items), sep>> \o Join(sep, Tail(items))

\* The names a joined list holds: its pieces at the odd positions.
Listed(pieces) == {pieces[i] : i \in {k \in 1..Len(pieces) : k % 2 = 1}}

ValidateInit ==
    /\ environ \in LoaderEnvs
    /\ environ0 = environ
    /\ key_names \in SeqsUpTo(KeyNames, MaxKeys)
    /\ outcome = None
    /\ key_name = None
    /\ default = None
    /\ required = FALSE
    /\ cwd_depth = 0
    /\ dotenv = <<>>
    /\ AgentIdle
    /\ QueryIdle
    /\ FormIdle

\* validate_required_keys(*key_names)
ValidateRequiredKeys ==
    /\ outcome = None
    /\ LET missing_keys == MissingKeys(key_names, environ) IN
       outcome' = IF missing_keys # <<>>
                  THEN Some([kind |-> "ValueError",
                             head |-> "Missing required environment variables:",
                             list |-> Join(", ", missing_keys)])
                  ELSE Some([kind |-> "return", value |-> TRUE])
    /\ UNCHANGED <<key_names, key_name, default, required, cwd_depth, dotenv>>
    /\ UNCHANGED <<environ, environ0, agentVars, queryVars, formVars>>

ValidateNext == ValidateRequiredKeys

ValidateSpec == ValidateInit /\ [][ValidateNext]_vars

\* C7: validate_required_keys raises when some required name is unset or
\* empty, and its message then lists exactly the required names that are
\* unset or empty (all of them, none that is set); it returns True when
\* none is; os.environ is as it was.
C7_ListsEveryMissing ==
    outcome # None =>
        LET absent == {key_names[i] : i \in 1..Len(key_names)} \cap
                      {n \in EnvNames : environ0[n] \in {Unset, ""}}
        IN  /\ environ = environ0
            /\ IF absent # {}
               THEN /\ Val(outcome).kind = "ValueError"
                    /\ Listed(Val(outcome).list) = absent
               ELSE Val(outcome) = [kind |-> "return", value |-> TRUE]

C7_Witness ==
    /\ outcome # None
    /\ key_names = <<HOME, OPENAI_API_KEY, GITHUB_TOKEN>>
    /\ environ0[HOME] = Unset
    /\ environ0[OPENAI_API_KEY] = "v"
    /\ environ0[GITHUB_TOKEN] = ""
    /\ Val(outcome).kind = "ValueError"
    /\ Val(outcome).list = <<HOME, ", ", GITHUB_TOKEN>>

(***************************************************************************)
(* get_api_key (GetKeySpec)                                                *)
(***************************************************************************)
GetenvDefault_EmptyFallsBack(env, name, dflt) ==
    IF env[name] # Unset /\ env[name] # "" THEN Some(env[name]) ELSE dflt

\* os.getenv(name, default): the value when the name is held, else default.
GetenvDefault(env, name, dflt) ==
    IF env[name] # Unset THEN Some(env[name]) ELSE dflt

\* Python truthiness of an Optional[str] held as None or Some(text).
TruthyOpt(o) == o # None /\ Val(o) # ""

GetKeyInit ==
    /\ environ \in LoaderEnvs
    /\ environ0 = environ
    /\ key_name \in {Some(n) : n \in KeyNames}
    /\ default \in {None, Some(""), Some("dflt")}
    /\ required \in BOOLEAN
    /\ outcome = None
    /\ key_names = <<>>
    /\ cwd_depth = 0
    /\ dotenv = <<>>
    /\ AgentIdle
    /\ QueryIdle
    /\ FormIdle

\* get_api_key(key_name, default, required)
GetApiKey ==
    /\ outcome = None
    /\ LET value == GetenvDefault(environ, Val(key_name), default) IN
       outcome' = IF required /\ ~TruthyOpt(value)
                  THEN Some([kind |-> "ValueError",
                             name |-> Val(key_name),
                             tail |-> " not found in environment variables."])
                  ELSE Some([kind |-> "return", value |-> value])
    /\ UNCHANGED <<key_names, key_name, default, required, cwd_depth, dotenv>>
    /\ UNCHANGED <<environ, environ0, agentVars, queryVars, formVars>>

GetKeyNext == GetApiKey

GetKeySpec == GetKeyInit /\ [][GetKeyNext]_vars

Depths == 0..MaxDepth

FileValue(d) == "file" \o ToString(d)

FileNames == {{GITHUB_TOKEN}, {GITHUB_TOKEN, OPENAI_API_KEY}}

\* Path.parent: the root is its own parent.
Parent(d) == IF d = 0 THEN 0 ELSE d - 1

\* for _ in range(3): if (current_dir / env_file).exists(): env_path = ...;
\* break; current_dir = current_dir.parent
RECURSIVE SearchUp(_, _, _)
SearchUp(files, current_dir, n) ==
    IF n = 0 THEN None
    ELSE IF files[current_dir] # None THEN Some(current_dir)
    ELSE SearchUp(files, Parent(current_dir), n - 1)

LoadDotenv_Override(env, names, value) ==
    [n \in EnvNames |-> IF n \in names THEN value ELSE env[n]]

\* load_dotenv(env_path), override left at its default False: a name
\* os.environ already holds keeps its value.
LoadDotenv(env, names, value) ==
    [n \in EnvNames |-> IF n \in names /\ env[n] = Unset THEN value ELSE env[n]]

LoadEnvInit ==
    /\ environ \in {e \in LoaderEnvs : e[HOME] = Unset}
    /\ environ0 = environ
    /\ cwd_depth \in Depths
    /\ dotenv \in [Depths -> {None} \cup {Some(f) : f \in FileNames}]
    /\ outcome = None
    /\ key_names = <<>>
    /\ key_name = None
    /\ default = None
    /\ required = FALSE
    /\ AgentIdle
    /\ QueryIdle
    /\ FormIdle

\* load_env(env_file=".env")
LoadEnv ==
    /\ outcome = None
    /\ LET env_path == SearchUp(dotenv, cwd_depth, SEARCH_LEVELS) IN
       IF env_path # None
       THEN /\ environ' = LoadDotenv(environ, Val(dotenv[Val(env_path)]),
                                     FileValue(Val(env_path)))
            /\ outcome' = Some([kind |-> "return", value |-> TRUE,
                                env_path |-> env_path])
       ELSE /\ outcome' = Some([kind |-> "return", value |-> FALSE,
                                env_path |-> None])
            /\ UNCHANGED environ
    /\ UNCHANGED <<key_names, key_name, default, required, cwd_depth, dotenv>>
    /\ UNCHANGED <<environ0, agentVars, queryVars, formVars>>

LoadEnvNext == LoadEnv

LoadEnvSpec == LoadEnvInit /\ [][LoadEnvNext]_vars

\* The directories load_env is to look in: the working directory and its
\* first two parents, as far as they exist.
NearLevels == {i \in 0..2 : i <= cwd_depth /\ dotenv[cwd_depth - i] # None}

\* C9: load_env returns (never raises) True exactly when the working
\* directory or one of its first two parents holds the file, and then
\* applies the nearest of them: every name that was set keeps its value, and
\* a name that was unset gets the file's value if the file assigns it and
\* stays unset otherwise. A file three or more levels up is not used, and
\* with no file found the environment is as it was.
C9_NearestOfThreeLevels ==
    outcome # None =>
        /\ Val(outcome).kind = "return"
        /\ Val(outcome).value = (NearLevels # {})
        /\ IF NearLevels = {}
           THEN environ = environ0
           ELSE LET up == CHOOSE i \in NearLevels : \A j \in NearLevels : i <= j
                    d == cwd_depth - up
                IN  /\ Val(outcome).env_path = <<d>>
                    /\ \A n \in EnvNames :
                          IF environ0[n] # Unset THEN environ[n] = environ0[n]
                          ELSE IF n \in Val(dotenv[d]) THEN environ[n] = FileValue(d)
                          ELSE environ[n] = Unset

C9_Witness ==
    /\ outcome # None
    /\ cwd_depth = 3
    /\ dotenv[3] = None /\ dotenv[2] = None
    /\ dotenv[1] = Some({GITHUB_TOKEN, OPENAI_API_KEY})
    /\ dotenv[0] # None
    /\ Val(outcome).value = TRUE
    /\ environ0[GITHUB_TOKEN] = "v" /\ environ[GITHUB_TOKEN] = "v"
    /\ environ0[OPENAI_API_KEY] = Unset /\ environ[OPENAI_API_KEY] = "file1"

(***************************************************************************)
(* The Streamlit script (FormSpec)                                         *)
(*                                                                         *)
(* One script run of a session, top to bottom: the two sidebar inputs, the *)
(* Run Query button and, when the gate passes, run_github_agent. The       *)
(* script runs of the other sessions of the process share os.environ and   *)
(* run in their own threads; what they do to this session is their sidebar *)
(* writes, which can fall between any two of its steps.                    *)
(***************************************************************************)
ERR_OPENAI == "Please enter your OpenAI API key in the sidebar"
ERR_GITHUB == "Please enter your GitHub token in the sidebar"
ERR_QUERY == "Please enter a query"

\* What this session typed, and what another session typed.
FormOpenAIKeys == {"", "sk_a"}
FormGithubTokens == {"", "ghp_a"}
OtherOpenAIKeys == {"sk_b"}
OtherGithubTokens == {"ghp_b"}

FormQueries == {<<>>, <<"a">>, <<"a", " ", "n">>}
FormRepos == {<<>>, <<"n">>, <<"a", "n">>}

\* os.environ when the script run starts: what the process inherited and
\* what earlier script runs left there.
FormEnvs ==
    {e \in [EnvNames -> {Unset, "", "ghp_old", "sk_old"}] :
        /\ e[GITHUB_TOKEN] \in {Unset, "", "ghp_old"}
        /\ e[OPENAI_API_KEY] \in {Unset, "", "sk_old"}
        /\ \A n \in EnvNames \ {GITHUB_TOKEN, OPENAI_API_KEY} : e[n] = Unset}

FormInit ==
    /\ environ \in FormEnvs
    /\ environ0 = environ
    /\ openai_key \in FormOpenAIKeys
    /\ github_token \in FormGithubTokens
    /\ clicked \in BOOLEAN
    /\ query \in {Some(q) : q \in FormQueries}
    /\ repo \in {Some(r) : r \in FormRepos}
    /\ orig_query = query
    /\ full_query = None
    /\ rounds = 0
    /\ fpc = "sidebar_openai"
    /\ st_error = <<>>
    /\ AgentIdle
    /\ LoaderIdle

\* if openai_key: os.environ["OPENAI_API_KEY"] = openai_key
SidebarOpenAI ==
    /\ fpc = "sidebar_openai"
    /\ environ' = IF openai_key # ""
                  THEN [environ EXCEPT ![OPENAI_API_KEY] = openai_key]
                  ELSE environ
    /\ fpc' = "sidebar_github"
    /\ UNCHANGED <<openai_key, github_token, clicked, st_error>>
    /\ UNCHANGED <<environ0, agentVars, queryVars, loaderVars>>

SidebarGithub_NoWrite ==
    /\ fpc = "sidebar_github"
    /\ fpc' = "button"
    /\ UNCHANGED <<openai_key, github_token, clicked, st_error>>
    /\ UNCHANGED <<environ, environ0, agentVars, queryVars, loaderVars>>

\* if github_token: os.environ["GITHUB_TOKEN"] = github_token
SidebarGithub ==
    /\ fpc = "sidebar_github"
    /\ environ' = IF github_token # ""
                  THEN [environ EXCEPT ![GITHUB_TOKEN] = github_token]
                  ELSE environ
    /\ fpc' = "button"
    /\ UNCHANGED <<openai_key, github_token, clicked, st_error>>
    /\ UNCHANGED <<environ0, agentVars, queryVars, loaderVars>>

\* if st.button("Run Query"): the three checks in order, then the
\* composition of full_query and asyncio.run(run_github_agent(full_query)),
\* which runs the agent's steps and blocks the script until they are done.
RunQueryButton ==
    /\ fpc = "button"
    /\ IF ~clicked
       THEN /\ fpc' = "end"
            /\ UNCHANGED <<st_error, full_query, message, pc, environ0>>
       ELSE IF openai_key = ""
       THEN /\ st_error' = Append(st_error, ERR_OPENAI)
            /\ fpc' = "end"
            /\ UNCHANGED <<full_query, message, pc, environ0>>
       ELSE IF github_token = ""
       THEN /\ st_error' = Append(st_error, ERR_GITHUB)
            /\ fpc' = "end"
            /\ UNCHANGED <<full_query, message, pc, environ0>>
       ELSE IF Val(query) = <<>>
       THEN /\ st_error' = Append(st_error, ERR_QUERY)
            /\ fpc' = "end"
            /\ UNCHANGED <<full_query, message, pc, environ0>>
       ELSE /\ full_query' = Some(FullQuery(Val(query), Val(repo)))
            /\ message' = full_query'
            /\ pc' = "start"
            /\ environ0' = environ
            /\ fpc' = "running"
            /\ UNCHANGED st_error
    /\ UNCHANGED <<environ, openai_key, github_token, clicked>>
    /\ UNCHANGED <<query, repo, orig_query, rounds, loaderVars>>
    /\ UNCHANGED <<server_params, conn, opens, requests, inflight, agent,
                   response, exc, expired, failed_at, result, raised>>

\* asyncio.run returned: st.markdown("### Results"); st.markdown(result)
ShowResult ==
    /\ fpc = "running"
    /\ pc = "done"
    /\ fpc' = "end"
    /\ UNCHANGED <<openai_key, github_token, clicked, st_error>>
    /\ UNCHANGED <<environ, environ0, agentVars, queryVars, loaderVars>>

\* Another session's script run reaches line 68 with its own key.
OtherSessionOpenAI ==
    /\ fpc # "end"
    /\ \E k \in OtherOpenAIKeys :
          environ' = [environ EXCEPT ![OPENAI_API_KEY] = k]
    /\ UNCHANGED <<environ0, agentVars, queryVars, loaderVars, formVars>>

\* Another session's script run reaches line 78 with its own token.
OtherSessionGithub ==
    /\ fpc # "end"
    /\ \E t \in OtherGithubTokens :
          environ' = [environ EXCEPT ![GITHUB_TOKEN] = t]
    /\ UNCHANGED <<environ0, agentVars, queryVars, loaderVars, formVars>>

FormNext ==
    \/ SidebarOpenAI
    \/ SidebarGithub
    \/ RunQueryButton
    \/ CheckGithubToken
    \/ CheckOpenAIKey
    \/ BuildServerParams
    \/ EnterMCPTools
    \/ CreateAgent
    \/ SubmitRequest
    \/ AwaitResponse
    \/ ExitMCPTools
    \/ HandleException
    \/ ShowResult
    \/ OtherSessionOpenAI
    \/ OtherSessionGithub

FormSpec == FormInit /\ [][FormNext]_vars

\* C11 (as claimed): the credentials in os.environ when the session's
\* invocation is called, and the access token and the OpenAI key in the
\* environment map of its launch descriptor, are the ones entered in that
\* session's own form for that request.
C11_OwnCredentials ==
    /\ pc # "idle" =>
          /\ environ0[GITHUB_TOKEN] = github_token
          /\ environ0[OPENAI_API_KEY] = openai_key
    /\ server_params # None =>
          /\ Val(server_params).env[GITHUB_PERSONAL_ACCESS_TOKEN] = github_token
          /\ Val(server_params).env[OPENAI_API_KEY] = openai_key

\* C12: run_github_agent is dispatched only by a click with the OpenAI key,
\* the GitHub token and the query all non-empty, and then no error is
\* reported; any other click dispatches nothing and reports exactly one
\* error, that of the first failing check in the order OpenAI key, GitHub
\* token, query. Once dispatched, os.environ holds a non-empty value for
\* both credentials, and the invocation never returns a missing-credential
\* message.
C12_RunQueryGate ==
    LET ok == openai_key # "" /\ github_token # "" /\ Val(query) # <<>> IN
    /\ pc # "idle" =>
          /\ clicked /\ ok
          /\ st_error = <<>>
          /\ environ[GITHUB_TOKEN] \notin {Unset, ""}
          /\ environ[OPENAI_API_KEY] \notin {Unset, ""}
    /\ result # <<"Error: GitHub token not provided">>
    /\ result # <<"Error: OpenAI API key not provided">>
    /\ fpc \in {"running", "end"} =>
          IF clicked /\ ok
          THEN pc # "idle" /\ st_error = <<>>
          ELSE /\ pc = "idle"
               /\ st_error =
                     IF ~clicked THEN <<>>
                     ELSE IF openai_key = ""
                     THEN <<"Please enter your OpenAI API key in the sidebar">>
                     ELSE IF github_token = ""
                     THEN <<"Please enter your GitHub token in the sidebar">>
                     ELSE <<"Please enter a query">>

C12_Witness ==
    /\ fpc = "end"
    /\ pc = "done"
    /\ environ[GITHUB_TOKEN] = "ghp_b"
    /\ Val(server_params).env[GITHUB_PERSONAL_ACCESS_TOKEN] = "ghp_a"
    /\ result = Some("## Issues")

====
